---- MODULE Spec2Model ----
(***************************************************************************)
(* A model of the recommendation backend of food_model:                    *)
(*   src/app/services/recommendation.py   RecommendationService            *)
(*   src/app/api/v1/endpoints/recommendations.py   the HTTP handlers       *)
(*   src/app/models/models.py             the ORM rows the service reads   *)
(*   src/app/api/v1/endpoints/users.py    the preference handlers          *)
(*   src/scripts/data/load_ingredients.py IngredientLoader                 *)
(*                                                                         *)
(* Python values are modelled as follows.                                  *)
(*   dict              a function whose DOMAIN is the set of keys present  *)
(*   list              a sequence                                          *)
(*   JSON text         a sequence of tokens, <<"[", "nuts", ",", "x", "]">>*)
(*   None / NULL       Null for a text column, None for a looked-up value  *)
(*   match_score       an integer number of tenths (0.5 is 5, 0.2 is 2)    *)
(*   str               where its characters matter (the allergen texts of  *)
(*                     _extract_allergens), the sequence of its characters *)
(*                                                                         *)
(* The names User, Recipe and UserRecipeInteraction that recommendation.py *)
(* queries are taken to be the classes of app/models/models.py (the file   *)
(* itself does not import them).                                           *)
(***************************************************************************)
EXTENDS Integers, Sequences, FiniteSets, TLC

VARIABLES
    model,               \* RecommendationService.model: "None", "unloaded", "loaded"
    recipes,             \* the session's Recipe instances: id -> instance __dict__
    recipe_ingredients,  \* the recipe_ingredients association: id -> Ingredient rows
    users,               \* the users table: id -> the four preference columns
    interactions,        \* the user_recipe_interactions table: a list of rows
    ingredients_table,   \* the ingredients table: a list of rows
    result,              \* outcome of the last get_recommendations call
    http,                \* the HTTP response when the last step was a request
    args,                \* arguments of a direct call of a service method
    ret,                 \* what that call returned
    loading,             \* the run of IngredientLoader.load_all_ingredients
    trainer,             \* the ModelTrainer, its train call and the checkpoints directory
    pipeline             \* the runs of train_pipeline.main and its log file

\* the state of the offline scripts
scripts == <<loading, trainer, pipeline>>

vars == <<model, recipes, recipe_ingredients, users, interactions, ingredients_table,
          result, http, args, ret, scripts>>

----------------------------------------------------------------------------
(* Bounds of the model *)

MaxRecipeId == 3      \* recipe ids are 1..MaxRecipeId
MaxN == 2             \* n_recommendations ranges over -1..MaxN
MaxLen == 2           \* length of a recipe list handed to filter_by_preferences
MaxBatch == 2         \* length of a list handed to save_ingredients
MaxPage == 2          \* load_all_ingredients fetches pages 1..MaxPage of range(1, 11)
MaxEpochs == 3        \* train is called with num_epochs in 0..MaxEpochs
MaxInterval == 2      \* save_interval in 1..MaxInterval
MaxPatience == 2      \* early_stopping_patience in 1..MaxPatience
MaxLoss == 3          \* validation losses are 1..MaxLoss
MaxRuns == 2          \* train_pipeline.main is run at most MaxRuns times
MaxInteractions == 3  \* favourites are added while the table has fewer rows
MaxCategory == 2      \* and queries the first MaxCategory of its ten categories

----------------------------------------------------------------------------
(* Python helpers *)

None == "None"
Null == <<>>

Range(s) == {s[i] : i \in 1..Len(s)}

\* dict.get(key, default)
Get(d, key, default) == IF key \in DOMAIN d THEN d[key] ELSE default

\* d[key] = value
SetKey(d, key, value) ==
    [k \in (DOMAIN d) \cup {key} |-> IF k = key THEN value ELSE d[k]]

\* x in lst
InList(x, lst) == \E i \in 1..Len(lst) : lst[i] = x

\* any(x in inner for x in outer)
AnyIn(outer, inner) == \E i \in 1..Len(outer) : InList(outer[i], inner)

\* lst[:n], Python slice semantics (a negative n counts from the end)
SliceTo_NoCut(lst, n) == lst

SliceTo(lst, n) ==
    LET stop == IF n >= 0
                THEN (IF n < Len(lst) THEN n ELSE Len(lst))
                ELSE (IF Len(lst) + n > 0 THEN Len(lst) + n ELSE 0)
    IN SubSeq(lst, 1, stop)

\* json.dumps of a list of strings
JsonDumps(lst) ==
    LET RECURSIVE Items(_)
        Items(i) == IF i > Len(lst) THEN <<>>
                    ELSE IF i = 1 THEN <<lst[1]>> \o Items(2)
                    ELSE <<",", lst[i]>> \o Items(i + 1)
    IN <<"[">> \o Items(1) \o <<"]">>

\* json.loads of the text of a list of strings
JsonLoads(text) ==
    LET inner == SubSeq(text, 2, Len(text) - 1)
    IN SelectSeq(inner, LAMBDA tok : tok # ",")

\* no call made yet
NoCall == [fn |-> "none"]

\* no offline script has been started
NotStarted == [pc |-> "none"]

ScriptsIdle ==
    /\ loading = NotStarted
    /\ trainer = NotStarted
    /\ pipeline = NotStarted

\* column or "[]"
OrEmptyList(column) == IF column = Null THEN JsonDumps(<<>>) ELSE column

----------------------------------------------------------------------------
(* RecommendationService: the methods that read no database *)

\* self.food_flags: the threshold of each food flag
self_food_flags ==
    [high_sodium |-> 500, high_sugar |-> 25, high_fat |-> 20,
     high_calories |-> 500, high_carbs |-> 50, low_protein |-> 10]

\* check_recipe_allergens(recipe, user_allergies): the loop over the recipe's
\* ingredients, with its early return
CheckRecipeAllergens_FirstOnly(recipe, user_allergies) ==
    LET ingredients == Get(recipe, "ingredients", <<>>)
    IN /\ Len(ingredients) > 0
       /\ AnyIn(user_allergies,
                JsonLoads(OrEmptyList(ingredients[1].common_allergens)))

CheckRecipeAllergens(recipe, user_allergies) ==
    LET ingredients == Get(recipe, "ingredients", <<>>)
        RECURSIVE Loop(_)
        Loop(i) ==
            IF i > Len(ingredients) THEN FALSE
            ELSE LET common_allergens ==
                         JsonLoads(OrEmptyList(ingredients[i].common_allergens))
                 IN IF AnyIn(user_allergies, common_allergens)
                    THEN TRUE
                    ELSE Loop(i + 1)
    IN Loop(1)

\* check_food_flags(recipe): the list of derived flags, in the order of the checks
CheckFoodFlags_AtThreshold(recipe) ==
    (IF Get(recipe, "sodium", 0) >= self_food_flags.high_sodium
        THEN <<"high_sodium">> ELSE <<>>)
    \o (IF Get(recipe, "sugar", 0) >= self_food_flags.high_sugar
        THEN <<"high_sugar">> ELSE <<>>)
    \o (IF Get(recipe, "fat", 0) >= self_food_flags.high_fat
        THEN <<"high_fat">> ELSE <<>>)
    \o (IF Get(recipe, "calories", 0) >= self_food_flags.high_calories
        THEN <<"high_calories">> ELSE <<>>)
    \o (IF Get(recipe, "carbs", 0) >= self_food_flags.high_carbs
        THEN <<"high_carbs">> ELSE <<>>)
    \o (IF Get(recipe, "protein", 0) <= self_food_flags.low_protein
        THEN <<"low_protein">> ELSE <<>>)

CheckFoodFlags(recipe) ==
    (IF Get(recipe, "sodium", 0) > self_food_flags.high_sodium
        THEN <<"high_sodium">> ELSE <<>>)
    \o (IF Get(recipe, "sugar", 0) > self_food_flags.high_sugar
        THEN <<"high_sugar">> ELSE <<>>)
    \o (IF Get(recipe, "fat", 0) > self_food_flags.high_fat
        THEN <<"high_fat">> ELSE <<>>)
    \o (IF Get(recipe, "calories", 0) > self_food_flags.high_calories
        THEN <<"high_calories">> ELSE <<>>)
    \o (IF Get(recipe, "carbs", 0) > self_food_flags.high_carbs
        THEN <<"high_carbs">> ELSE <<>>)
    \o (IF Get(recipe, "protein", 0) < self_food_flags.low_protein
        THEN <<"low_protein">> ELSE <<>>)

\* The boost of a favourite cuisine (line 140) and the default score (line 225)
CuisineBoost == 2
DefaultScore == 5

\* filter_by_preferences, lines 125-136: the three checks that `continue`
SkipsRecipe_NoFlagCheck(recipe, preferences) ==
    IF AnyIn(preferences.dietary_restrictions, Get(recipe, "tags", <<>>))
    THEN TRUE
    ELSE CheckRecipeAllergens(recipe, preferences.allergies)

SkipsRecipe(recipe, preferences) ==
    IF AnyIn(preferences.dietary_restrictions, Get(recipe, "tags", <<>>))
    THEN TRUE
    ELSE IF CheckRecipeAllergens(recipe, preferences.allergies)
    THEN TRUE
    ELSE AnyIn(preferences.food_flags, CheckFoodFlags(recipe))

\* filter_by_preferences, lines 138-143: the boost of a favourite cuisine and
\* the derived flags, both written into the recipe dict
KeepRecipe(recipe, preferences) ==
    LET boosted ==
            IF InList(Get(recipe, "cuisine", None), preferences.favorite_cuisines)
            THEN SetKey(recipe, "match_score",
                        Get(recipe, "match_score", 0) + CuisineBoost)
            ELSE recipe
    IN SetKey(boosted, "food_flags", CheckFoodFlags(recipe))

\* filter_by_preferences(recipes, preferences): the loop over the recipes
FilterByPreferences(recipe_list, preferences) ==
    LET RECURSIVE Loop(_, _)
        Loop(i, filtered_recipes) ==
            IF i > Len(recipe_list) THEN filtered_recipes
            ELSE IF SkipsRecipe(recipe_list[i], preferences)
            THEN Loop(i + 1, filtered_recipes)
            ELSE Loop(i + 1, Append(filtered_recipes,
                                    KeepRecipe(recipe_list[i], preferences)))
    IN Loop(1, <<>>)

----------------------------------------------------------------------------
(* Input data: ingredient rows, recipe dicts and preference dicts *)

\* dict(a, **b)
Merge(a, b) ==
    [k \in (DOMAIN a) \cup (DOMAIN b) |-> IF k \in DOMAIN b THEN b[k] ELSE a[k]]

\* the dicts that hold the key with one of the values, or do not hold it
Optional(key, values) ==
    {<<>>} \cup {[k \in {key} |-> v] : v \in values}

\* Ingredient rows (models.py: name, common_allergens as JSON text or NULL)
Lettuce == [name |-> "lettuce", common_allergens |-> Null]
Nuts    == [name |-> "nuts", common_allergens |-> JsonDumps(<<"nuts">>)]
Cheese  == [name |-> "cheese", common_allergens |-> JsonDumps(<<"gluten", "dairy">>)]
Rice    == [name |-> "rice", common_allergens |-> JsonDumps(<<>>)]

IngredientLists == {<<Lettuce, Nuts>>, <<Rice, Cheese>>}

\* the nutrition columns of a recipe
Lean  == [calories |-> 400, protein |-> 15, carbs |-> 40, fat |-> 10]
Fatty == [calories |-> 500, protein |-> 10, carbs |-> 50, fat |-> 21, sodium |-> 501]

\* the dicts handed to a direct call: no match_score yet, a cuisine on the
\* recipes that carry no ingredients
RecipeDicts ==
    {Merge(Merge(n, t), i) :
        n \in {Lean, Fatty},
        t \in Optional("tags", {<<"vegan">>}),
        i \in Optional("ingredients", IngredientLists)}
    \cup {Merge(Merge(n, t), [cuisine |-> "italian"]) :
        n \in {Lean, Fatty},
        t \in Optional("tags", {<<"vegan">>})}

PreferenceDicts ==
    [dietary_restrictions : {<<>>, <<"vegan">>},
     favorite_cuisines    : {<<>>, <<"italian">>},
     allergies            : {<<>>, <<"nuts">>, <<"soy", "dairy">>},
     food_flags           : {<<>>, <<"high_sugar", "high_fat">>}]

RecipeLists == UNION {[1..len -> RecipeDicts] : len \in 0..MaxLen}

----------------------------------------------------------------------------
(* Direct calls of the service's methods *)

\* Binding the positional arguments of check_food_flags(self, recipe)
CallCheckFoodFlags(positional) ==
    IF Len(positional) # 1
    THEN [fn |-> "check_food_flags", positional |-> positional,
          raised |-> "TypeError"]
    ELSE [fn |-> "check_food_flags", positional |-> positional,
          raised |-> "", value |-> CheckFoodFlags(positional[1])]

ServiceIdle ==
    /\ model = "None"
    /\ recipes = <<>>
    /\ recipe_ingredients = <<>>
    /\ users = <<>>
    /\ interactions = <<>>
    /\ ingredients_table = <<>>
    /\ result = NoCall
    /\ http = NoCall
    /\ ScriptsIdle

InitCalls ==
    /\ ServiceIdle
    /\ args \in [recipes : RecipeLists, preferences : PreferenceDicts]
    /\ ret = NoCall

CheckRecipeAllergensCall ==
    /\ \E i \in 1..Len(args.recipes) :
          ret' = [fn |-> "check_recipe_allergens",
                  recipe |-> args.recipes[i],
                  user_allergies |-> args.preferences.allergies,
                  value |-> CheckRecipeAllergens(args.recipes[i],
                                                 args.preferences.allergies)]
    /\ UNCHANGED <<model, recipes, recipe_ingredients, users, interactions,
                   ingredients_table, scripts,
                   result, http, args>>

CheckFoodFlagsCall ==
    /\ \E i \in 1..Len(args.recipes) :
          \E positional \in {<<args.recipes[i]>>,
                             <<args.recipes[i], args.preferences>>} :
              ret' = CallCheckFoodFlags(positional)
    /\ UNCHANGED <<model, recipes, recipe_ingredients, users, interactions,
                   ingredients_table, scripts,
                   result, http, args>>

FilterByPreferencesCall ==
    /\ ret' = [fn |-> "filter_by_preferences",
               recipes |-> args.recipes,
               preferences |-> args.preferences,
               value |-> FilterByPreferences(args.recipes, args.preferences)]
    /\ UNCHANGED <<model, recipes, recipe_ingredients, users, interactions,
                   ingredients_table, scripts,
                   result, http, args>>

NextCalls ==
    \/ CheckRecipeAllergensCall
    \/ CheckFoodFlagsCall
    \/ FilterByPreferencesCall

SpecCalls == InitCalls /\ [][NextCalls]_vars

----------------------------------------------------------------------------
(* check_food_flags on recipes whose nutrition fields lie at the thresholds *)

\* recipe dicts in which each nutrition field is absent, equal to the threshold
\* of its flag, or one unit beyond it
NutritionDicts ==
    {Merge(Merge(Merge(Merge(Merge(so, su), fa), ca), cb), pr) :
        so \in Optional("sodium", {self_food_flags.high_sodium,
                                   self_food_flags.high_sodium + 1}),
        su \in Optional("sugar", {self_food_flags.high_sugar,
                                  self_food_flags.high_sugar + 1}),
        fa \in Optional("fat", {self_food_flags.high_fat,
                                self_food_flags.high_fat + 1}),
        ca \in Optional("calories", {self_food_flags.high_calories,
                                     self_food_flags.high_calories + 1}),
        cb \in Optional("carbs", {self_food_flags.high_carbs,
                                  self_food_flags.high_carbs + 1}),
        pr \in Optional("protein", {self_food_flags.low_protein - 1,
                                    self_food_flags.low_protein})}

InitFlags ==
    /\ ServiceIdle
    /\ args \in [recipes : {<<recipe>> : recipe \in NutritionDicts},
                 preferences : {p \in PreferenceDicts :
                                   /\ p.dietary_restrictions = <<>>
                                   /\ p.favorite_cuisines = <<>>
                                   /\ p.allergies = <<>>
                                   /\ p.food_flags # <<>>}]
    /\ ret = NoCall

SpecFlags == InitFlags /\ [][CheckFoodFlagsCall]_vars

----------------------------------------------------------------------------
(* RecommendationService: the methods that read the database *)

RecipeIds == 1..MaxRecipeId
UserIds == 1..3
NValues == (0 - 1)..MaxN

\* the orders in which the elements of a finite set can be listed
Orders(S) ==
    {f \in [1..Cardinality(S) -> S] :
        \A i, j \in 1..Cardinality(S) : i # j => f[i] # f[j]}

\* get_user_preferences(user_id, db)
GetUserPreferences_Swapped(user_id) ==
    IF user_id \notin DOMAIN users
    THEN [dietary_restrictions |-> <<>>, favorite_cuisines |-> <<>>,
          allergies |-> <<>>, food_flags |-> <<>>]
    ELSE [dietary_restrictions |->
              JsonLoads(OrEmptyList(users[user_id].dietary_restrictions)),
          favorite_cuisines |->
              JsonLoads(OrEmptyList(users[user_id].favorite_cuisines)),
          allergies |-> JsonLoads(OrEmptyList(users[user_id].food_flags)),
          food_flags |-> JsonLoads(OrEmptyList(users[user_id].allergies))]

GetUserPreferences(user_id) ==
    IF user_id \notin DOMAIN users
    THEN [dietary_restrictions |-> <<>>, favorite_cuisines |-> <<>>,
          allergies |-> <<>>, food_flags |-> <<>>]
    ELSE [dietary_restrictions |->
              JsonLoads(OrEmptyList(users[user_id].dietary_restrictions)),
          favorite_cuisines |->
              JsonLoads(OrEmptyList(users[user_id].favorite_cuisines)),
          allergies |-> JsonLoads(OrEmptyList(users[user_id].allergies)),
          food_flags |-> JsonLoads(OrEmptyList(users[user_id].food_flags))]

\* _find_similar_users and _get_recipes_from_similar_users: placeholders
FindSimilarUsers(user_id) == <<>>

GetRecipesFromSimilarUsers_Logged(similar_users) ==
    [k \in 1..Len(interactions) |-> interactions[k].recipe_id]

GetRecipesFromSimilarUsers(similar_users) == <<>>

\* collaborative_filtering(user_id, db): the user's interactions are queried
\* and not used
CollaborativeFiltering(user_id) ==
    LET user_interactions ==
            SelectSeq(interactions, LAMBDA row : row.user_id = user_id)
        similar_users == FindSimilarUsers(user_id)
        recommended_recipes == GetRecipesFromSimilarUsers(similar_users)
    IN recommended_recipes

\* get_recipe_features(recipe): the eight raw features, then
\* scaler.fit_transform on that single sample (its mean is the sample itself)
GetRecipeFeatures(recipe) ==
    LET features == <<Get(recipe, "calories", 0), Get(recipe, "protein", 0),
                      Get(recipe, "carbs", 0), Get(recipe, "fat", 0),
                      Get(recipe, "fiber", 0), Get(recipe, "prep_time", 0),
                      Get(recipe, "cook_time", 0), Get(recipe, "servings", 1)>>
    IN [k \in 1..Len(features) |-> features[k] - features[k]]

\* torch.cosine_similarity, up to its sign (0 for a zero vector)
CosineSimilarity(a, b) ==
    LET RECURSIVE Dot(_)
        Dot(k) == IF k > Len(a) THEN 0 ELSE a[k] * b[k] + Dot(k + 1)
    IN IF Dot(1) > 0 THEN 1 ELSE IF Dot(1) < 0 THEN 0 - 1 ELSE 0

\* list.sort(key=lambda x: x['match_score'], reverse=True): stable
SortByMatchScore_Ascending(lst) ==
    LET RECURSIVE Insert(_, _)
        Insert(x, sorted) ==
            IF sorted = <<>> THEN <<x>>
            ELSE IF Head(sorted).match_score <= x.match_score
            THEN <<Head(sorted)>> \o Insert(x, Tail(sorted))
            ELSE <<x>> \o sorted
        RECURSIVE Sort(_, _)
        Sort(k, sorted) ==
            IF k > Len(lst) THEN sorted ELSE Sort(k + 1, Insert(lst[k], sorted))
    IN Sort(1, <<>>)

SortByMatchScore(lst) ==
    LET RECURSIVE Insert(_, _)
        Insert(x, sorted) ==
            IF sorted = <<>> THEN <<x>>
            ELSE IF Head(sorted).match_score >= x.match_score
            THEN <<Head(sorted)>> \o Insert(x, Tail(sorted))
            ELSE <<x>> \o sorted
        RECURSIVE Sort(_, _)
        Sort(k, sorted) ==
            IF k > Len(lst) THEN sorted ELSE Sort(k + 1, Insert(lst[k], sorted))
    IN Sort(1, <<>>)

\* db.query(Recipe).all(): the ids in primary-key order
QueryAllRecipes ==
    LET RECURSIVE Upto(_)
        Upto(id) == IF id > MaxRecipeId THEN <<>>
                    ELSE IF id \in DOMAIN recipes THEN <<id>> \o Upto(id + 1)
                    ELSE Upto(id + 1)
    IN Upto(1)

\* content_based_filtering(recipe_id, db); all_recipes is the order in which
\* db.query(Recipe).all() lists the ids
ContentBasedFiltering_WithTarget(recipe_id, all_recipes) ==
    IF recipe_id \notin DOMAIN recipes THEN <<>>
    ELSE
      LET target_features == GetRecipeFeatures(recipes[recipe_id])
          similar_recipes ==
              [k \in 1..Len(all_recipes) |->
                  [id |-> all_recipes[k],
                   match_score |->
                       CosineSimilarity(target_features,
                                        GetRecipeFeatures(recipes[all_recipes[k]]))]]
          ranked == SortByMatchScore(similar_recipes)
      IN [k \in 1..Len(ranked) |-> ranked[k].id]

ContentBasedFiltering(recipe_id, all_recipes) ==
    IF recipe_id \notin DOMAIN recipes THEN <<>>
    ELSE
      LET target_features == GetRecipeFeatures(recipes[recipe_id])
          others == SelectSeq(all_recipes, LAMBDA id : id # recipe_id)
          similar_recipes ==
              [k \in 1..Len(others) |->
                  [id |-> others[k],
                   match_score |->
                       CosineSimilarity(target_features,
                                        GetRecipeFeatures(recipes[others[k]]))]]
          ranked == SortByMatchScore(similar_recipes)
      IN [k \in 1..Len(ranked) |-> ranked[k].id]

\* get_recommendations, lines 219-226: the recipes of the first
\* n_recommendations candidates, each given the default score
RecommendedRecipes_KeepScore(combined_recommendations, n_recommendations) ==
    LET fetched == SliceTo(combined_recommendations, n_recommendations)
    IN [k \in 1..Len(fetched) |->
           SetKey(recipes[fetched[k]], "match_score",
                  Get(recipes[fetched[k]], "match_score", DefaultScore))]

RecommendedRecipes_Uncut(combined_recommendations, n_recommendations) ==
    [k \in 1..Len(combined_recommendations) |->
        SetKey(recipes[combined_recommendations[k]], "match_score", DefaultScore)]

RecommendedRecipes(combined_recommendations, n_recommendations) ==
    LET fetched == SliceTo(combined_recommendations, n_recommendations)
    IN [k \in 1..Len(fetched) |->
           SetKey(recipes[fetched[k]], "match_score", DefaultScore)]

\* get_recommendations(user_id, db, n_recommendations).  weights_ok says whether
\* torch.load and load_state_dict succeed when load_model runs them, and
\* combined_recommendations is the order list(set(...)) gives the candidates.
\* The dicts the method writes to are the instances' own __dict__, so what it
\* writes stays on the session's Recipe instances.
GetRecommendationsFrom(user_id, n_recommendations, weights_ok, combined_recommendations) ==
    /\ model' = IF model = "None"
                THEN (IF weights_ok THEN "loaded" ELSE "unloaded")
                ELSE model
    /\ IF model = "None" /\ ~ weights_ok
       THEN /\ result' = [fn |-> "get_recommendations", user_id |-> user_id,
                          n_recommendations |-> n_recommendations,
                          raised |-> "load_model", value |-> <<>>]
            /\ UNCHANGED recipes
       ELSE LET user_prefs == GetUserPreferences(user_id)
                recommended_recipes ==
                    RecommendedRecipes(combined_recommendations, n_recommendations)
                filtered == FilterByPreferences(recommended_recipes, user_prefs)
                sorted == SortByMatchScore(filtered)
                Written(id) ==
                    IF \E k \in 1..Len(filtered) : filtered[k].id = id
                    THEN filtered[CHOOSE k \in 1..Len(filtered) :
                                      filtered[k].id = id]
                    ELSE IF \E k \in 1..Len(recommended_recipes) :
                                recommended_recipes[k].id = id
                    THEN SetKey(recipes[id], "match_score", DefaultScore)
                    ELSE recipes[id]
            IN /\ result' = [fn |-> "get_recommendations", user_id |-> user_id,
                             n_recommendations |-> n_recommendations,
                             raised |-> "",
                             value |-> SliceTo(sorted, n_recommendations)]
               /\ recipes' = [id \in DOMAIN recipes |-> Written(id)]

\* line 217: the orders list(set(cf_recommendations + cb_recommendations)) can have
CombinedRecommendations(user_id) ==
    Orders(Range(CollaborativeFiltering(user_id)
                 \o ContentBasedFiltering(user_id, QueryAllRecipes)))

GetRecommendations(user_id, n_recommendations, weights_ok) ==
    \E combined_recommendations \in CombinedRecommendations(user_id) :
        GetRecommendationsFrom(user_id, n_recommendations, weights_ok,
                               combined_recommendations)

\* A direct call of get_recommendations
GetRecommendationsCall ==
    /\ \E user_id \in UserIds, n \in NValues,
          weights_ok \in (IF model = "None" THEN BOOLEAN ELSE {TRUE}) :
          GetRecommendations(user_id, n, weights_ok)
    /\ http' = NoCall
    /\ args' = NoCall
    /\ ret' = NoCall
    /\ UNCHANGED <<recipe_ingredients, users, interactions, ingredients_table, scripts>>

\* A direct call of get_recommendations in which ret is what line 217 assigned
\* to combined_recommendations
GetRecommendationsOrdered ==
    /\ \E user_id \in UserIds, n \in NValues,
          weights_ok \in (IF model = "None" THEN BOOLEAN ELSE {TRUE}) :
          \E combined_recommendations \in CombinedRecommendations(user_id) :
              /\ GetRecommendationsFrom(user_id, n, weights_ok,
                                        combined_recommendations)
              /\ ret' = IF result'.raised # "" THEN NoCall
                        ELSE [fn |-> "combined_recommendations",
                              value |-> combined_recommendations]
    /\ http' = NoCall
    /\ args' = NoCall
    /\ UNCHANGED <<recipe_ingredients, users, interactions, ingredients_table, scripts>>

\* GET /personalized: get_personalized_recommendations for an authenticated user
GetPersonalizedRecommendations_Swallow ==
    /\ \E current_user \in DOMAIN users, n \in NValues,
          weights_ok \in (IF model = "None" THEN BOOLEAN ELSE {TRUE}) :
          /\ GetRecommendations(current_user, n, weights_ok)
          /\ http' = [route |-> "/personalized", user_id |-> current_user,
                      status_code |-> 200, detail |-> "",
                      body |-> result'.value]
    /\ args' = NoCall
    /\ ret' = NoCall
    /\ UNCHANGED <<recipe_ingredients, users, interactions, ingredients_table, scripts>>

GetPersonalizedRecommendations ==
    /\ \E current_user \in DOMAIN users, n \in NValues,
          weights_ok \in (IF model = "None" THEN BOOLEAN ELSE {TRUE}) :
          /\ GetRecommendations(current_user, n, weights_ok)
          /\ http' = IF result'.raised # ""
                     THEN [route |-> "/personalized", user_id |-> current_user,
                           status_code |-> 500, detail |-> result'.raised,
                           body |-> <<>>]
                     ELSE [route |-> "/personalized", user_id |-> current_user,
                           status_code |-> 200, detail |-> "",
                           body |-> result'.value]
    /\ args' = NoCall
    /\ ret' = NoCall
    /\ UNCHANGED <<recipe_ingredients, users, interactions, ingredients_table, scripts>>

\* A direct call of get_user_preferences
GetUserPreferencesCall ==
    /\ \E user_id \in UserIds :
          ret' = [fn |-> "get_user_preferences", user_id |-> user_id,
                  value |-> GetUserPreferences(user_id)]
    /\ result' = NoCall
    /\ http' = NoCall
    /\ args' = NoCall
    /\ UNCHANGED <<model, recipes, recipe_ingredients, users, interactions,
                   ingredients_table, scripts>>

\* A direct call of content_based_filtering
ContentBasedFilteringCall ==
    /\ \E recipe_id \in RecipeIds :
          ret' = [fn |-> "content_based_filtering", recipe_id |-> recipe_id,
                  raised |-> "",
                  value |-> ContentBasedFiltering(recipe_id, QueryAllRecipes)]
    /\ result' = NoCall
    /\ http' = NoCall
    /\ args' = NoCall
    /\ UNCHANGED <<model, recipes, recipe_ingredients, users, interactions,
                   ingredients_table, scripts>>

\* A direct call of collaborative_filtering
CollaborativeFilteringCall ==
    /\ \E user_id \in UserIds :
          ret' = [fn |-> "collaborative_filtering", user_id |-> user_id,
                  value |-> CollaborativeFiltering(user_id)]
    /\ result' = NoCall
    /\ http' = NoCall
    /\ args' = NoCall
    /\ UNCHANGED <<model, recipes, recipe_ingredients, users, interactions,
                   ingredients_table, scripts>>

\* GET /similar/{recipe_id}: get_similar_recipes.  ret is the call of
\* content_based_filtering the handler makes inside its try block.
GetSimilarRecipes ==
    /\ \E recipe_id \in RecipeIds, n_recommendations \in NValues :
          /\ ret' = [fn |-> "content_based_filtering", recipe_id |-> recipe_id,
                     raised |-> "",
                     value |-> ContentBasedFiltering(recipe_id, QueryAllRecipes)]
          /\ http' = IF ret'.raised # ""
                     THEN [route |-> "/similar", status_code |-> 500,
                           detail |-> ret'.raised, body |-> <<>>]
                     ELSE [route |-> "/similar", status_code |-> 200,
                           detail |-> "",
                           body |-> SliceTo(ret'.value, n_recommendations)]
    /\ result' = NoCall
    /\ args' = NoCall
    /\ UNCHANGED <<model, recipes, recipe_ingredients, users, interactions,
                   ingredients_table, scripts>>

\* train_model(training_data): pass
TrainModel_Fitted(training_data) == model' = "loaded"

TrainModel(training_data) == UNCHANGED model

\* the lists handed to train_model
TrainingData == {<<>>, <<[recipe_id |-> 1, rating |-> 5]>>}

\* A direct call of train_model
TrainModelCall ==
    /\ \E training_data \in TrainingData :
          /\ TrainModel(training_data)
          /\ ret' = [fn |-> "train_model", training_data |-> training_data,
                     raised |-> "", value |-> None]
    /\ result' = NoCall
    /\ http' = NoCall
    /\ args' = NoCall
    /\ UNCHANGED <<recipes, recipe_ingredients, users, interactions,
                   ingredients_table, scripts>>

\* POST /train: train_recommendation_model.  current_user is a row of the users
\* table; reading an attribute the row does not have raises AttributeError
\* before the try block is entered, which the framework answers with its own
\* 500 "Internal Server Error".  ret is the call of train_model the handler
\* makes inside its try block.
TrainRecommendationModel ==
    /\ \E current_user \in DOMAIN users :
          IF "is_admin" \notin DOMAIN users[current_user]
          THEN /\ http' = [route |-> "/train", user_id |-> current_user,
                           status_code |-> 500,
                           detail |-> "Internal Server Error", body |-> <<>>]
               /\ ret' = NoCall
               /\ UNCHANGED model
          ELSE IF ~ users[current_user].is_admin
          THEN /\ http' = [route |-> "/train", user_id |-> current_user,
                           status_code |-> 403,
                           detail |-> "Not enough permissions", body |-> <<>>]
               /\ ret' = NoCall
               /\ UNCHANGED model
          ELSE /\ TrainModel(<<>>)
               /\ ret' = [fn |-> "train_model", training_data |-> <<>>,
                          raised |-> "", value |-> None]
               /\ http' = IF ret'.raised # ""
                          THEN [route |-> "/train", user_id |-> current_user,
                                status_code |-> 500, detail |-> ret'.raised,
                                body |-> <<>>]
                          ELSE [route |-> "/train", user_id |-> current_user,
                                status_code |-> 200, detail |-> "",
                                body |-> <<"Model trained successfully">>]
    /\ result' = NoCall
    /\ args' = NoCall
    /\ UNCHANGED <<recipes, recipe_ingredients, users, interactions,
                   ingredients_table, scripts>>

----------------------------------------------------------------------------
(* The database states the service is started on *)

\* the users table: user 1 has set every preference, the columns of user 2
\* are NULL, and no user has id 3
UsersTable ==
    [id \in {1, 2} |->
        IF id = 1
        THEN [dietary_restrictions |-> JsonDumps(<<"vegan">>),
              favorite_cuisines |-> JsonDumps(<<"thai", "italian">>),
              allergies |-> JsonDumps(<<"nuts">>),
              food_flags |-> JsonDumps(<<"high_fat">>)]
        ELSE [dietary_restrictions |-> Null, favorite_cuisines |-> Null,
              allergies |-> Null, food_flags |-> Null]]

\* a recipe: what its instance __dict__ holds after a query, the ingredients the
\* association table gives it, and whether the session has loaded that
\* relationship (it is lazy: __dict__ holds 'ingredients' only once loaded)
CatalogueEntries ==
    <<[dict |-> Merge(Fatty, [food_flags |-> JsonDumps(<<"high_sodium">>),
                              tags |-> <<"vegan">>]),
       ingredients |-> <<Rice, Cheese>>, loaded |-> TRUE],
      [dict |-> Merge(Lean, [food_flags |-> Null]),
       ingredients |-> <<Lettuce, Nuts>>, loaded |-> FALSE],
      [dict |-> Merge(Lean, [food_flags |-> Null, cuisine |-> "italian"]),
       ingredients |-> <<>>, loaded |-> TRUE],
      [dict |-> Merge(Lean, [food_flags |-> Null, cuisine |-> "italian"]),
       ingredients |-> <<Lettuce, Nuts>>, loaded |-> TRUE]>>

\* the catalogues list the entries in that order, starting at the first or at
\* the second one
Shifts == {0, 1}

\* the recipe stored under an id
EntryOf(id, shift) ==
    CatalogueEntries[((id - 1 + shift) % Len(CatalogueEntries)) + 1]

\* the recipes, their ingredients and the users the service is started on
InitDatabase ==
    /\ \E ids \in SUBSET RecipeIds, shift \in Shifts :
          /\ recipes =
                [id \in ids |->
                    Merge(Merge([id |-> id], EntryOf(id, shift).dict),
                          IF EntryOf(id, shift).loaded
                          THEN [ingredients |-> EntryOf(id, shift).ingredients]
                          ELSE <<>>)]
          /\ recipe_ingredients = [id \in ids |-> EntryOf(id, shift).ingredients]
    /\ users = UsersTable

Init ==
    /\ model = "None"
    /\ InitDatabase
    /\ interactions = <<>>
    /\ ingredients_table = <<>>
    /\ result = NoCall
    /\ http = NoCall
    /\ args = NoCall
    /\ ret = NoCall
    /\ ScriptsIdle

Next ==
    \/ GetRecommendationsCall
    \/ GetPersonalizedRecommendations

Spec == Init /\ [][Next]_vars

\* get_recommendations called directly, its candidates observed
SpecCandidates == Init /\ [][GetRecommendationsOrdered]_vars

\* the interactions logged before the service is called
InteractionTables ==
    {<<>>,
     <<[user_id |-> 1, recipe_id |-> 1, interaction_type |-> "save"]>>,
     <<[user_id |-> 2, recipe_id |-> 1, interaction_type |-> "view"],
       [user_id |-> 1, recipe_id |-> 2, interaction_type |-> "cook"],
       [user_id |-> 2, recipe_id |-> 1, interaction_type |-> "save"]>>}

InitReads ==
    /\ model = "None"
    /\ InitDatabase
    /\ interactions \in InteractionTables
    /\ ingredients_table = <<>>
    /\ result = NoCall
    /\ http = NoCall
    /\ args = NoCall
    /\ ret = NoCall
    /\ ScriptsIdle

\* the methods that only read the database, and the handler of /similar
NextReads ==
    \/ GetUserPreferencesCall
    \/ ContentBasedFilteringCall
    \/ CollaborativeFilteringCall
    \/ GetSimilarRecipes

SpecReads == InitReads /\ [][NextReads]_vars

\* the three handlers of the recommendations router, and train_model
NextRouter ==
    \/ GetPersonalizedRecommendations
    \/ GetSimilarRecipes
    \/ TrainRecommendationModel
    \/ TrainModelCall

SpecRouter == Init /\ [][NextRouter]_vars

----------------------------------------------------------------------------
(* The preference handlers of app/api/v1/endpoints/users.py *)

\* the fields of the UserPreferences schema, none of which has a default
UserPreferencesFields ==
    {"dietary_restrictions", "favorite_cuisines", "allergies", "food_flags"}

\* UserPreferences(**kwargs): pydantic raises ValidationError when a required
\* field is missing
UserPreferences(kwargs) ==
    IF UserPreferencesFields \subseteq DOMAIN kwargs
    THEN [raised |-> "", value |-> kwargs]
    ELSE [raised |-> "ValidationError", value |-> <<>>]

\* the answer to a preferences request: the schema object the handler returns,
\* or the framework's 500 for the exception that left the handler
PreferencesResponse(method, current_user, constructed) ==
    IF constructed.raised # ""
    THEN [route |-> "/users/me/preferences", method |-> method,
          user_id |-> current_user, status_code |-> 500,
          detail |-> "Internal Server Error", body |-> <<>>]
    ELSE [route |-> "/users/me/preferences", method |-> method,
          user_id |-> current_user, status_code |-> 200,
          detail |-> "", body |-> constructed.value]

\* PUT /users/me/preferences: update_user_preferences.  args is the request:
\* the user and the submitted preferences.
UpdateUserPreferences ==
    /\ \E current_user \in DOMAIN users, preferences \in PreferenceDicts :
          /\ users' = [users EXCEPT
                          ![current_user].dietary_restrictions =
                              JsonDumps(preferences.dietary_restrictions),
                          ![current_user].favorite_cuisines =
                              JsonDumps(preferences.favorite_cuisines)]
          /\ args' = [fn |-> "update_user_preferences",
                      user_id |-> current_user, preferences |-> preferences]
          /\ http' = PreferencesResponse("PUT", current_user,
                         UserPreferences(
                             [dietary_restrictions |->
                                  JsonLoads(users'[current_user].dietary_restrictions),
                              favorite_cuisines |->
                                  JsonLoads(users'[current_user].favorite_cuisines)]))
    /\ result' = NoCall
    /\ ret' = NoCall
    /\ UNCHANGED <<model, recipes, recipe_ingredients, interactions,
                   ingredients_table, scripts>>

\* GET /users/me/preferences: get_user_preferences of users.py
GetUserPreferencesRequest ==
    /\ \E current_user \in DOMAIN users :
          http' = PreferencesResponse("GET", current_user,
                     UserPreferences(
                         [dietary_restrictions |->
                              JsonLoads(OrEmptyList(
                                  users[current_user].dietary_restrictions)),
                          favorite_cuisines |->
                              JsonLoads(OrEmptyList(
                                  users[current_user].favorite_cuisines))]))
    /\ result' = NoCall
    /\ ret' = NoCall
    /\ UNCHANGED <<model, recipes, recipe_ingredients, users, interactions,
                   ingredients_table, scripts, args>>

InitUsers ==
    /\ model = "None"
    /\ recipes = <<>>
    /\ recipe_ingredients = <<>>
    /\ users = UsersTable
    /\ interactions = <<>>
    /\ ingredients_table = <<>>
    /\ result = NoCall
    /\ http = NoCall
    /\ args = NoCall
    /\ ret = NoCall
    /\ ScriptsIdle

NextUsers ==
    \/ UpdateUserPreferences
    \/ GetUserPreferencesRequest

SpecUsers == InitUsers /\ [][NextUsers]_vars

----------------------------------------------------------------------------
(* The favourites handlers of app/api/v1/endpoints/users.py *)

\* the rows the query of a user's saved recipes returns, in primary-key order
SavedBy(user_id) ==
    SelectSeq(interactions,
              LAMBDA row : row.user_id = user_id /\ row.interaction_type = "save")

\* db.delete of the row .first() returned: the first "save" row of the user
\* for the recipe
DeleteFirst(user_id, recipe_id) ==
    LET Matches(k) == /\ interactions[k].user_id = user_id
                      /\ interactions[k].recipe_id = recipe_id
                      /\ interactions[k].interaction_type = "save"
        first == CHOOSE k \in 1..Len(interactions) :
                     /\ Matches(k)
                     /\ \A j \in 1..(k - 1) : ~ Matches(j)
    IN SubSeq(interactions, 1, first - 1)
       \o SubSeq(interactions, first + 1, Len(interactions))

\* GET /users/me/favorites: get_user_favorites; the body lists the recipe of
\* each saved row by its id
GetUserFavorites ==
    /\ \E current_user \in DOMAIN users :
          http' = [route |-> "/users/me/favorites", method |-> "GET",
                   user_id |-> current_user, recipe_id |-> 0,
                   status_code |-> 200, detail |-> "",
                   body |-> [k \in 1..Len(SavedBy(current_user)) |->
                                SavedBy(current_user)[k].recipe_id]]
    /\ result' = NoCall
    /\ args' = NoCall
    /\ ret' = NoCall
    /\ UNCHANGED <<model, recipes, recipe_ingredients, users, interactions,
                   ingredients_table, scripts>>

\* POST /users/me/favorites/{recipe_id}: add_to_favorites, for a recipe of the
\* catalogue
AddToFavorites ==
    /\ Len(interactions) < MaxInteractions
    /\ \E current_user \in DOMAIN users, recipe_id \in DOMAIN recipes :
          /\ interactions' = Append(interactions,
                                    [user_id |-> current_user,
                                     recipe_id |-> recipe_id,
                                     interaction_type |-> "save"])
          /\ http' = [route |-> "/users/me/favorites", method |-> "POST",
                      user_id |-> current_user, recipe_id |-> recipe_id,
                      status_code |-> 200, detail |-> "",
                      body |-> <<"Recipe added to favorites">>]
    /\ result' = NoCall
    /\ args' = NoCall
    /\ ret' = NoCall
    /\ UNCHANGED <<model, recipes, recipe_ingredients, users,
                   ingredients_table, scripts>>

\* DELETE /users/me/favorites/{recipe_id}: remove_from_favorites
RemoveFromFavorites ==
    /\ \E current_user \in DOMAIN users, recipe_id \in RecipeIds :
          IF \E k \in 1..Len(SavedBy(current_user)) :
                 SavedBy(current_user)[k].recipe_id = recipe_id
          THEN /\ interactions' = DeleteFirst(current_user, recipe_id)
               /\ http' = [route |-> "/users/me/favorites", method |-> "DELETE",
                           user_id |-> current_user, recipe_id |-> recipe_id,
                           status_code |-> 200, detail |-> "",
                           body |-> <<"Recipe removed from favorites">>]
          ELSE /\ interactions' = interactions
               /\ http' = [route |-> "/users/me/favorites", method |-> "DELETE",
                           user_id |-> current_user, recipe_id |-> recipe_id,
                           status_code |-> 404,
                           detail |-> "Recipe not found in favorites",
                           body |-> <<>>]
    /\ result' = NoCall
    /\ args' = NoCall
    /\ ret' = NoCall
    /\ UNCHANGED <<model, recipes, recipe_ingredients, users,
                   ingredients_table, scripts>>

\* the full catalogue, the two users, and no interaction or one view logged
InitFavorites ==
    /\ model = "None"
    /\ recipes = [id \in RecipeIds |-> Merge([id |-> id], EntryOf(id, 0).dict)]
    /\ recipe_ingredients = [id \in RecipeIds |-> EntryOf(id, 0).ingredients]
    /\ users = UsersTable
    /\ interactions \in
          {<<>>, <<[user_id |-> 1, recipe_id |-> 1, interaction_type |-> "view"]>>}
    /\ ingredients_table = <<>>
    /\ result = NoCall
    /\ http = NoCall
    /\ args = NoCall
    /\ ret = NoCall
    /\ ScriptsIdle

NextFavorites ==
    \/ GetUserFavorites
    \/ AddToFavorites
    \/ RemoveFromFavorites

SpecFavorites == InitFavorites /\ [][NextFavorites]_vars

----------------------------------------------------------------------------
(* IngredientLoader of scripts/data/load_ingredients.py *)

\* str.split(sep)
Split(chars, sep) ==
    LET RECURSIVE Parts(_, _)
        Parts(i, current) ==
            IF i > Len(chars) THEN <<current>>
            ELSE IF chars[i] = sep THEN <<current>> \o Parts(i + 1, <<>>)
            ELSE Parts(i + 1, Append(current, chars[i]))
    IN Parts(1, <<>>)

\* str.strip()
Strip(chars) ==
    LET Solid == {i \in 1..Len(chars) : chars[i] # " "}
    IN IF Solid = {} THEN <<>>
       ELSE SubSeq(chars, CHOOSE i \in Solid : \A j \in Solid : i <= j,
                   CHOOSE i \in Solid : \A j \in Solid : i >= j)

\* str.lower(), on the letters the allergen texts are written with
Lower(chars) ==
    [i \in 1..Len(chars) |->
        IF chars[i] = "E" THEN "e"
        ELSE IF chars[i] = "S" THEN "s"
        ELSE chars[i]]

\* _extract_allergens(data).  data["allergens"] is a str or a list of str,
\* data["allergenName"] a str.  The value is list(set(allergens)), whose order
\* is arbitrary: it is given as the set of its elements.
ExtractAllergens(data) ==
    IF "allergens" \in DOMAIN data /\ data.allergens.type = "list"
    THEN [raised |-> "AttributeError", value |-> {}]
    ELSE
      LET split == IF "allergens" \in DOMAIN data
                   THEN Split(data.allergens.value, ",") ELSE <<>>
          extended ==
              IF "allergens" \notin DOMAIN data THEN split
              ELSE IF data.allergens.type = "list"
              THEN split \o data.allergens.value
              ELSE split \o [i \in 1..Len(data.allergens.value) |->
                                <<data.allergens.value[i]>>]
          appended == IF "allergenName" \in DOMAIN data
                      THEN Append(extended, data.allergenName) ELSE extended
      IN [raised |-> "",
          value |-> {Lower(Strip(appended[i])) :
                        i \in {k \in 1..Len(appended) : Strip(appended[k]) # <<>>}}]

\* the loop body the three fetchers share: an item that has the key its name
\* is read from becomes an ingredient dict
AppendIngredients(items, name_key, source) ==
    LET RECURSIVE Loop(_, _)
        Loop(i, collected) ==
            IF i > Len(items) THEN [raised |-> "", value |-> collected]
            ELSE IF name_key \notin DOMAIN items[i] THEN Loop(i + 1, collected)
            ELSE IF ExtractAllergens(items[i]).raised # ""
            THEN [raised |-> ExtractAllergens(items[i]).raised, value |-> <<>>]
            ELSE Loop(i + 1,
                      Append(collected,
                             [name |-> items[i][name_key],
                              common_allergens |-> ExtractAllergens(items[i]).value,
                              source |-> source]))
    IN Loop(1, <<>>)

\* get_openfoodfacts_ingredients, lines 52-63: the ingredients of the products
ParseOpenFoodFacts(data) ==
    LET products == Get(data, "products", <<>>)
        RECURSIVE Flatten(_)
        Flatten(i) ==
            IF i > Len(products) THEN <<>>
            ELSE Get(products[i], "ingredients", <<>>) \o Flatten(i + 1)
    IN AppendIngredients(Flatten(1), "text", "openfoodfacts")

\* get_edamam_ingredients, lines 82-92: the food of each hint
ParseEdamam(data) ==
    LET hints == Get(data, "hints", <<>>)
    IN AppendIngredients([i \in 1..Len(hints) |-> Get(hints[i], "food", <<>>)],
                         "label", "edamam")

\* get_usda_ingredients, lines 111-120: the foods
ParseUsda(data) ==
    AppendIngredients(Get(data, "foods", <<>>), "description", "usda")

\* the try block of a fetcher: requests.get, raise_for_status and json() each
\* raise or not, then the parsing does
Attempt(response, parsed) ==
    IF response.step # "ok"
    THEN [error |-> response.step, raised |-> "Exception", value |-> <<>>]
    ELSE IF parsed.raised # ""
    THEN [error |-> "parse", raised |-> parsed.raised, value |-> <<>>]
    ELSE [error |-> "", raised |-> "", value |-> parsed.value]

\* except Exception: log the error and return []
CatchAll_Reraise(attempt) == attempt

CatchAll(attempt) ==
    IF attempt.raised # ""
    THEN [error |-> attempt.error, raised |-> "", value |-> <<>>]
    ELSE attempt

\* the allergen fields of an item of a response
SoyEgg == <<"S", "o", "y", ",", " ", "e", "g", "g">>

AllergenFields ==
    {<<>>,
     [allergens |-> [type |-> "str", value |-> SoyEgg]],
     [allergens |-> [type |-> "str", value |-> <<"e", "g", "g", ",", "E", "g", "g">>]],
     [allergens |-> [type |-> "list", value |-> <<<<"S", "o", "y">>, <<" ", "e", "g", "g">>>>]],
     [allergenName |-> <<"E", "g", "g", " ">>]}

\* what the remote API does: one of the three steps raises, or the JSON
\* document arrives.  items are the documents' entries.
Responses(wrap, items) ==
    {[step |-> "get", data |-> <<>>],
     [step |-> "raise_for_status", data |-> <<>>],
     [step |-> "json", data |-> <<>>],
     [step |-> "ok", data |-> <<>>]}
    \cup {[step |-> "ok", data |-> wrap[1] :> <<item>>] : item \in items}
    \cup {[step |-> "ok", data |-> wrap[1] :> <<wrap[2], item>>] : item \in items}

OpenFoodFactsResponses ==
    Responses(<<"products", <<>>>>,
              {[ingredients |-> <<Merge([text |-> "tofu"], fields), [id |-> "x"]>>] :
                  fields \in AllergenFields})

EdamamResponses ==
    Responses(<<"hints", <<>>>>,
              {[food |-> Merge([label |-> "tofu"], fields)] : fields \in AllergenFields})

UsdaResponses ==
    Responses(<<"foods", [fdcId |-> "x"]>>,
              {Merge([description |-> "tofu"], fields) : fields \in AllergenFields})

\* the columns of the Ingredient model
IngredientColumns == {"id", "name", "category", "common_allergens"}

\* Ingredient(**kwargs): the declarative constructor raises TypeError for a
\* keyword that is no attribute of the class
Ingredient(kwargs) ==
    IF DOMAIN kwargs \subseteq IngredientColumns
    THEN [raised |-> "", value |-> kwargs]
    ELSE [raised |-> "TypeError", value |-> <<>>]

\* save_ingredients without its except clause: the exception leaves the
\* method and the rows added before it stay pending in the session
SaveIngredients_Unhandled(batch) ==
    LET Stored(name) ==
            \E k \in 1..Len(ingredients_table) : ingredients_table[k].name = name
        RECURSIVE Loop(_, _)
        Loop(i, pending) ==
            IF i > Len(batch) THEN [error |-> "", pending |-> pending]
            ELSE IF Stored(batch[i].name) THEN Loop(i + 1, pending)
            ELSE LET ingredient ==
                         Ingredient([name |-> batch[i].name,
                                     common_allergens |->
                                         JsonDumps(batch[i].common_allergens),
                                     source |-> batch[i].source])
                 IN IF ingredient.raised # ""
                    THEN [error |-> ingredient.raised, pending |-> pending]
                    ELSE Loop(i + 1, Append(pending, ingredient.value))
        looped == Loop(1, <<>>)
    IN IF looped.error # ""
       THEN [error |-> looped.error, added |-> Len(looped.pending),
             commits |-> 0, rollbacks |-> 0, closed |-> TRUE,
             raised |-> looped.error, table |-> ingredients_table]
       ELSE [error |-> "", added |-> Len(looped.pending),
             commits |-> 1, rollbacks |-> 0, closed |-> TRUE, raised |-> "",
             table |-> ingredients_table \o looped.pending]

\* save_ingredients(ingredients).  The session does not autoflush, so the
\* query for an existing name sees the committed rows only; the rows added are
\* written by the commit, which the unique index on name can refuse.
SaveIngredients(batch) ==
    LET Stored(name) ==
            \E k \in 1..Len(ingredients_table) : ingredients_table[k].name = name
        RECURSIVE Loop(_, _)
        Loop(i, pending) ==
            IF i > Len(batch) THEN [error |-> "", pending |-> pending]
            ELSE IF Stored(batch[i].name) THEN Loop(i + 1, pending)
            ELSE LET ingredient ==
                         Ingredient([name |-> batch[i].name,
                                     common_allergens |->
                                         JsonDumps(batch[i].common_allergens),
                                     source |-> batch[i].source])
                 IN IF ingredient.raised # ""
                    THEN [error |-> ingredient.raised, pending |-> pending]
                    ELSE Loop(i + 1, Append(pending, ingredient.value))
        looped == Loop(1, <<>>)
        Unique(rows) ==
            \A i, j \in 1..Len(rows) : rows[i].name = rows[j].name => i = j
    IN IF looped.error # ""
       THEN [error |-> looped.error, added |-> Len(looped.pending),
             commits |-> 0, rollbacks |-> 1, closed |-> TRUE, raised |-> "",
             table |-> ingredients_table]
       ELSE IF ~ Unique(ingredients_table \o looped.pending)
       THEN [error |-> "IntegrityError", added |-> Len(looped.pending),
             commits |-> 1, rollbacks |-> 1, closed |-> TRUE, raised |-> "",
             table |-> ingredients_table]
       ELSE [error |-> "", added |-> Len(looped.pending),
             commits |-> 1, rollbacks |-> 0, closed |-> TRUE, raised |-> "",
             table |-> ingredients_table \o looped.pending]

\* the ingredient dicts handed to save_ingredients
IngredientData ==
    {[name |-> "nuts", common_allergens |-> <<"nuts">>, source |-> "usda"],
     [name |-> "tofu", common_allergens |-> <<"soy">>, source |-> "edamam"],
     [name |-> "rice", common_allergens |-> <<>>, source |-> "openfoodfacts"]}

Batches == UNION {[1..len -> IngredientData] : len \in 0..MaxBatch}

\* the external calls a fetcher makes: one requests.get, and no time.sleep
RequestsGet(url) == [fn |-> "requests.get", url |-> url]

TimeSleep(seconds) == [fn |-> "time.sleep", seconds |-> seconds]

\* the three fetchers: what they return and the external calls they made
FetchOpenFoodFacts(response) ==
    Merge([calls |-> <<RequestsGet("openfoodfacts")>>],
          CatchAll(Attempt(response, ParseOpenFoodFacts(response.data))))

FetchEdamam(response) ==
    Merge([calls |-> <<RequestsGet("edamam")>>],
          CatchAll(Attempt(response, ParseEdamam(response.data))))

FetchUsda(response) ==
    Merge([calls |-> <<RequestsGet("usda")>>],
          CatchAll(Attempt(response, ParseUsda(response.data))))

\* the three fetchers, called directly
GetOpenFoodFactsIngredients ==
    /\ \E response \in OpenFoodFactsResponses :
          ret' = Merge([fn |-> "get_openfoodfacts_ingredients", response |-> response],
                       FetchOpenFoodFacts(response))
    /\ UNCHANGED <<model, recipes, recipe_ingredients, users, interactions,
                   ingredients_table, scripts,
                   result, http, args>>

GetEdamamIngredients ==
    /\ \E response \in EdamamResponses :
          ret' = Merge([fn |-> "get_edamam_ingredients", response |-> response],
                       FetchEdamam(response))
    /\ UNCHANGED <<model, recipes, recipe_ingredients, users, interactions,
                   ingredients_table, scripts,
                   result, http, args>>

GetUsdaIngredients ==
    /\ \E response \in UsdaResponses :
          ret' = Merge([fn |-> "get_usda_ingredients", response |-> response],
                       FetchUsda(response))
    /\ UNCHANGED <<model, recipes, recipe_ingredients, users, interactions,
                   ingredients_table, scripts,
                   result, http, args>>

\* A direct call of _extract_allergens
ExtractAllergensCall ==
    /\ \E data \in AllergenFields :
          ret' = Merge([fn |-> "_extract_allergens", data |-> data],
                       ExtractAllergens(data))
    /\ UNCHANGED <<model, recipes, recipe_ingredients, users, interactions,
                   ingredients_table, scripts,
                   result, http, args>>

\* A direct call of save_ingredients
SaveIngredientsCall ==
    /\ \E batch \in Batches :
          /\ ret' = Merge([fn |-> "save_ingredients", batch |-> batch],
                          SaveIngredients(batch))
          /\ ingredients_table' = SaveIngredients(batch).table
    /\ UNCHANGED <<model, recipes, recipe_ingredients, users, interactions,
                   scripts, result, http, args>>

\* the ingredients stored before the loader runs
InitLoader ==
    /\ model = "None"
    /\ recipes = <<>>
    /\ recipe_ingredients = <<>>
    /\ users = <<>>
    /\ interactions = <<>>
    /\ ingredients_table \in {<<>>, <<Nuts>>, <<Nuts, Rice>>}
    /\ result = NoCall
    /\ http = NoCall
    /\ args = NoCall
    /\ ret = NoCall
    /\ ScriptsIdle

NextLoader ==
    \/ GetOpenFoodFactsIngredients
    \/ GetEdamamIngredients
    \/ GetUsdaIngredients
    \/ ExtractAllergensCall
    \/ SaveIngredientsCall

SpecLoader == InitLoader /\ [][NextLoader]_vars

----------------------------------------------------------------------------
(* IngredientLoader.load_all_ingredients, step by step *)

\* list(set(allergens)) of the fetched ingredients of a run: the responses of
\* a run name at most one allergen, so the list has one order
ListOfSet(S) == CHOOSE order \in Orders(S) : TRUE

\* what the remote APIs answer during a run: the request fails, or a document
\* with one ingredient that names no allergen arrives
RunResponses(responses) ==
    {r \in responses :
        \/ r.step = "get"
        \/ /\ r.step = "ok"
           /\ r.data # <<>>
           /\ \A key \in DOMAIN r.data :
                 /\ Len(r.data[key]) = 1
                 /\ "allergens" \notin DOMAIN Get(r.data[key][1], "food", r.data[key][1])
                 /\ "allergenName" \notin DOMAIN Get(r.data[key][1], "food", r.data[key][1])
                 /\ \A i \in 1..Len(Get(r.data[key][1], "ingredients", <<>>)) :
                       /\ "allergens" \notin DOMAIN r.data[key][1].ingredients[i]
                       /\ "allergenName" \notin DOMAIN r.data[key][1].ingredients[i]}

\* the fetch the run is at: lines 183, 190 and 195
FetchOf(source) ==
    IF source = "openfoodfacts"
    THEN {FetchOpenFoodFacts(r) : r \in RunResponses(OpenFoodFactsResponses)}
    ELSE IF source = "edamam"
    THEN {FetchEdamam(r) : r \in RunResponses(EdamamResponses)}
    ELSE {FetchUsda(r) : r \in RunResponses(UsdaResponses)}

\* lines 171-179: the call starts with an empty all_ingredients, at page 1
LoadAllIngredients ==
    /\ loading.pc = "none"
    /\ loading' = [pc |-> "fetch", source |-> "openfoodfacts", page |-> 1,
                   category |-> 0, all_ingredients |-> <<>>, calls |-> <<>>,
                   total |-> None]
    /\ ret' = NoCall
    /\ UNCHANGED <<model, recipes, recipe_ingredients, users, interactions,
                   ingredients_table, trainer, pipeline, result, http, args>>

\* lines 183-184, 190-191, 195-196: one fetch and all_ingredients.extend
LoadFetch ==
    /\ loading.pc = "fetch"
    /\ \E fetched \in FetchOf(loading.source) :
          loading' = [loading EXCEPT
                         !.pc = "sleep",
                         !.all_ingredients =
                             @ \o [i \in 1..Len(fetched.value) |->
                                      [fetched.value[i] EXCEPT
                                          !.common_allergens = ListOfSet(@)]],
                         !.calls = @ \o fetched.calls]
    /\ ret' = NoCall
    /\ UNCHANGED <<model, recipes, recipe_ingredients, users, interactions,
                   ingredients_table, trainer, pipeline, result, http, args>>

\* lines 185, 192, 197: time.sleep(1), then the next iteration of the loops
LoadSleep ==
    /\ loading.pc = "sleep"
    /\ loading' =
          [loading EXCEPT
              !.calls = Append(@, TimeSleep(1)),
              !.pc = IF loading.source = "usda" /\ loading.category = MaxCategory
                     THEN "save" ELSE "fetch",
              !.source = IF loading.source = "openfoodfacts"
                         THEN (IF loading.page < MaxPage
                               THEN "openfoodfacts" ELSE "edamam")
                         ELSE IF loading.source = "edamam" THEN "usda"
                         ELSE "edamam",
              !.page = IF loading.source = "openfoodfacts" /\ loading.page < MaxPage
                       THEN @ + 1 ELSE @,
              !.category = IF loading.source = "openfoodfacts"
                           THEN (IF loading.page < MaxPage THEN @ ELSE 1)
                           ELSE IF loading.source = "usda" /\ @ < MaxCategory
                           THEN @ + 1 ELSE @]
    /\ ret' = NoCall
    /\ UNCHANGED <<model, recipes, recipe_ingredients, users, interactions,
                   ingredients_table, trainer, pipeline, result, http, args>>

\* lines 199-202: save_ingredients(all_ingredients) and the total logged
LoadSave ==
    /\ loading.pc = "save"
    /\ ingredients_table' = SaveIngredients(loading.all_ingredients).table
    /\ loading' = [loading EXCEPT !.pc = "returned",
                                  !.total = Len(loading.all_ingredients)]
    /\ ret' = NoCall
    /\ UNCHANGED <<model, recipes, recipe_ingredients, users, interactions,
                   trainer, pipeline, result, http, args>>

\* a run of load_all_ingredients, and get_openfoodfacts_ingredients called on
\* its own
NextLoadAll ==
    \/ LoadAllIngredients
    \/ LoadFetch
    \/ LoadSleep
    \/ LoadSave
    \/ GetOpenFoodFactsIngredients

SpecLoadAll == InitLoader /\ [][NextLoadAll]_vars

----------------------------------------------------------------------------
(* ModelTrainer of scripts/training/train_model.py *)

\* the validation losses validate() can return, and float('inf')
Losses == 1..MaxLoss
Inf == MaxLoss + 1

\* the losses train_epoch() can return; they feed the metrics only
TrainLosses == {1, 2}

\* f'checkpoint_epoch_{epoch}.pt'
EpochFile(epoch) ==
    <<"checkpoint_epoch_0.pt", "checkpoint_epoch_1.pt", "checkpoint_epoch_2.pt",
      "checkpoint_epoch_3.pt", "checkpoint_epoch_4.pt", "checkpoint_epoch_5.pt">>[epoch + 1]

\* ModelTrainer.__init__, lines 38-45: empty metrics, best_val_loss = inf, and
\* the checkpoints directory (files: name -> checkpoint written by torch.save)
ModelTrainer ==
    [pc |-> "constructed", train_losses |-> <<>>, val_losses |-> <<>>,
     best_val_loss |-> Inf, files |-> <<>>,
     num_epochs |-> 0, save_interval |-> 1, early_stopping_patience |-> 1,
     epoch |-> 0, patience_counter |-> 0, early_stop |-> 0]

\* save_checkpoint(epoch, val_loss) on the trainer t.  The model and optimizer
\* state dicts of a checkpoint are those of its epoch.
SaveCheckpoint(t, epoch, val_loss) ==
    LET checkpoint == [epoch |-> epoch, val_loss |-> val_loss,
                       train_losses |-> t.train_losses,
                       val_losses |-> t.val_losses]
        best == IF val_loss < t.best_val_loss
                THEN [t EXCEPT !.best_val_loss = val_loss,
                               !.files = SetKey(@, "best_model.pt", checkpoint)]
                ELSE t
    IN [best EXCEPT !.files = SetKey(@, EpochFile(epoch), checkpoint)]

\* train, lines 114-138: the body of the loop for the epoch t.epoch, given
\* what train_epoch() and validate() returned
TrainLoopBody(t, train_loss, val_loss) ==
    LET epoch == t.epoch
        logged == [t EXCEPT !.train_losses = Append(@, train_loss),
                            !.val_losses = Append(@, val_loss)]
        saved == IF (epoch + 1) % t.save_interval = 0
                 THEN SaveCheckpoint(logged, epoch, val_loss)
                 ELSE logged
    IN IF val_loss < saved.best_val_loss
       THEN [SaveCheckpoint([saved EXCEPT !.best_val_loss = val_loss,
                                          !.patience_counter = 0],
                            epoch, val_loss)
                EXCEPT !.epoch = epoch + 1,
                       !.pc = IF epoch + 1 < t.num_epochs
                              THEN "training" ELSE "returned"]
       ELSE IF saved.patience_counter + 1 >= t.early_stopping_patience
       THEN [saved EXCEPT !.patience_counter = @ + 1,
                          !.epoch = epoch + 1,
                          !.early_stop = epoch + 1,
                          !.pc = "returned"]
       ELSE [saved EXCEPT !.patience_counter = @ + 1,
                          !.epoch = epoch + 1,
                          !.pc = IF epoch + 1 < t.num_epochs
                                 THEN "training" ELSE "returned"]

\* trainer.train(num_epochs, save_interval, early_stopping_patience), lines
\* 102-111: patience_counter = 0, and the loop is entered or is empty
Train ==
    /\ trainer.pc = "constructed"
    /\ \E num_epochs \in 0..MaxEpochs, save_interval \in 1..MaxInterval,
          early_stopping_patience \in 1..MaxPatience :
          trainer' = [trainer EXCEPT
                         !.num_epochs = num_epochs,
                         !.save_interval = save_interval,
                         !.early_stopping_patience = early_stopping_patience,
                         !.patience_counter = 0,
                         !.epoch = 0,
                         !.pc = IF num_epochs > 0 THEN "training" ELSE "returned"]
    /\ UNCHANGED <<model, recipes, recipe_ingredients, users, interactions,
                   ingredients_table, loading, pipeline, result, http, args, ret>>

\* one epoch of the loop
TrainEpoch ==
    /\ trainer.pc = "training"
    /\ \E train_loss \in TrainLosses, val_loss \in Losses :
          trainer' = TrainLoopBody(trainer, train_loss, val_loss)
    /\ UNCHANGED <<model, recipes, recipe_ingredients, users, interactions,
                   ingredients_table, loading, pipeline, result, http, args, ret>>

\* main, lines 146-155: a RecipeEmbedding and a ModelTrainer are constructed
InitTrainer ==
    /\ model = "None"
    /\ recipes = <<>>
    /\ recipe_ingredients = <<>>
    /\ users = <<>>
    /\ interactions = <<>>
    /\ ingredients_table = <<>>
    /\ result = NoCall
    /\ http = NoCall
    /\ args = NoCall
    /\ ret = NoCall
    /\ loading = NotStarted
    /\ pipeline = NotStarted
    /\ trainer = ModelTrainer

NextTrainer ==
    \/ Train
    \/ TrainEpoch

SpecTrainer == InitTrainer /\ [][NextTrainer]_vars

----------------------------------------------------------------------------
(* scripts/training/train_pipeline.py *)

\* the three scripts main hands to run_script, with their descriptions
PipelineScripts ==
    <<[script_path |-> "scripts/training/load_data.py",
       description |-> "data loading"],
      [script_path |-> "scripts/training/data_preparation.py",
       description |-> "data preparation"],
      [script_path |-> "scripts/training/train_model.py",
       description |-> "model training"]>>

\* subprocess.run([sys.executable, script_path], check=True): the script exits
\* with 0, exits with another code or is killed by a signal (both raise
\* CalledProcessError), or the interpreter cannot be started (OSError).
\* train_model.py reads the loaders of data/preprocessed first, which
\* data_preparation.py does not write, so it fails when they are not there.
SubprocessRun(script_path, loaders_exist) ==
    {[raised |-> "CalledProcessError", returncode |-> 1],
     [raised |-> "CalledProcessError", returncode |-> 0 - 9],
     [raised |-> "OSError", returncode |-> 0]}
    \cup (IF script_path = "scripts/training/train_model.py" /\ ~ loaders_exist
          THEN {}
          ELSE {[raised |-> "", returncode |-> 0]})

\* run_script(script_path, description), given what subprocess.run did: the
\* messages logged and the value returned, or the exception that leaves it
RunScript(description, completed) ==
    IF completed.raised = ""
    THEN [raised |-> "", value |-> TRUE,
          logged |-> <<[level |-> "info", message |-> "Starting",
                        description |-> description],
                       [level |-> "info", message |-> "Completed",
                        description |-> description]>>]
    ELSE IF completed.raised = "CalledProcessError"
    THEN [raised |-> "", value |-> FALSE,
          logged |-> <<[level |-> "info", message |-> "Starting",
                        description |-> description],
                       [level |-> "error", message |-> "Error during",
                        description |-> description]>>]
    ELSE [raised |-> completed.raised, value |-> FALSE,
          logged |-> <<[level |-> "info", message |-> "Starting",
                        description |-> description]>>]

\* main, lines 34-43: `if not run_script(...): return`
AfterStep_Continue(step, ran) ==
    IF ran.raised # "" THEN "raised"
    ELSE IF step < Len(PipelineScripts) THEN "step"
    ELSE "completing"

AfterStep(step, ran) ==
    IF ran.raised # "" THEN "raised"
    ELSE IF ~ ran.value THEN "returned"
    ELSE IF step < Len(PipelineScripts) THEN "step"
    ELSE "completing"

\* main is started, lines 28-31: the directories are made.  The log file is
\* appended to by every run; processes are the scripts this run has run.
PipelineMain ==
    /\ pipeline.pc \in {"idle", "returned", "raised"}
    /\ pipeline.run < MaxRuns
    /\ pipeline' = [pipeline EXCEPT !.pc = "step", !.step = 1,
                                    !.run = @ + 1, !.processes = <<>>]
    /\ UNCHANGED <<model, recipes, recipe_ingredients, users, interactions,
                   ingredients_table, loading, trainer, result, http, args, ret>>

\* one `if not run_script(...)` of main
PipelineStep ==
    /\ pipeline.pc = "step"
    /\ LET script == PipelineScripts[pipeline.step]
       IN \E completed \in SubprocessRun(script.script_path, pipeline.loaders_exist) :
             LET ran == RunScript(script.description, completed)
             IN pipeline' =
                   [pipeline EXCEPT
                       !.pc = AfterStep(pipeline.step, ran),
                       !.step = IF AfterStep(pipeline.step, ran) = "step"
                                THEN @ + 1 ELSE @,
                       !.processes =
                           Append(@, [script_path |-> script.script_path,
                                      raised |-> completed.raised,
                                      returncode |-> completed.returncode]),
                       !.log = @ \o [k \in 1..Len(ran.logged) |->
                                        Merge(ran.logged[k],
                                              [run |-> pipeline.run])]]
    /\ UNCHANGED <<model, recipes, recipe_ingredients, users, interactions,
                   ingredients_table, loading, trainer, result, http, args, ret>>

\* line 45: the completion message
PipelineCompleted ==
    /\ pipeline.pc = "completing"
    /\ pipeline' = [pipeline EXCEPT
                       !.pc = "returned",
                       !.log = Append(@, [level |-> "info",
                                          message |-> "Training pipeline completed",
                                          description |-> "",
                                          run |-> pipeline.run])]
    /\ UNCHANGED <<model, recipes, recipe_ingredients, users, interactions,
                   ingredients_table, loading, trainer, result, http, args, ret>>

\* before the first run: an empty log file, and data/preprocessed with or
\* without loaders written by an earlier preparation
InitPipeline ==
    /\ model = "None"
    /\ recipes = <<>>
    /\ recipe_ingredients = <<>>
    /\ users = <<>>
    /\ interactions = <<>>
    /\ ingredients_table = <<>>
    /\ result = NoCall
    /\ http = NoCall
    /\ args = NoCall
    /\ ret = NoCall
    /\ loading = NotStarted
    /\ trainer = NotStarted
    /\ \E loaders_exist \in BOOLEAN :
          pipeline = [pc |-> "idle", step |-> 0, run |-> 0, processes |-> <<>>,
                      log |-> <<>>, loaders_exist |-> loaders_exist]

NextPipeline ==
    \/ PipelineMain
    \/ PipelineStep
    \/ PipelineCompleted

SpecPipeline == InitPipeline /\ [][NextPipeline]_vars

----------------------------------------------------------------------------
(* Claims about the methods called directly (SpecCalls) *)

\* the ingredients a recipe dict carries
IngredientsOf(recipe) ==
    IF "ingredients" \in DOMAIN recipe THEN recipe.ingredients ELSE <<>>

\* the allergen is one of the names written in the ingredient's common_allergens
ListsAllergen(ingredient, allergen) ==
    \E k \in 1..Len(ingredient.common_allergens) :
        ingredient.common_allergens[k] = allergen

\* C3: filter_by_preferences returns no recipe whose derived food flags include
\* a flag of the user's food_flags preference, and every recipe it returns
\* carries its derived flags in its food_flags entry.
C3_NoFlaggedRecipeReturned ==
    ret.fn = "filter_by_preferences" =>
        \A i \in 1..Len(ret.value) :
            /\ ~ \E j \in 1..Len(ret.preferences.food_flags) :
                   InList(ret.preferences.food_flags[j], CheckFoodFlags(ret.value[i]))
            /\ "food_flags" \in DOMAIN ret.value[i]
            /\ ret.value[i].food_flags = CheckFoodFlags(ret.value[i])

\* a call that dropped a recipe for a flagged food flag and returned another one
\* together with its (non-empty) derived flags
C3_Witness ==
    /\ ret.fn = "filter_by_preferences"
    /\ \E i \in 1..Len(ret.recipes) :
          /\ ~ AnyIn(ret.preferences.dietary_restrictions, Get(ret.recipes[i], "tags", <<>>))
          /\ AnyIn(ret.preferences.food_flags, CheckFoodFlags(ret.recipes[i]))
    /\ Len(ret.value) = 1
    /\ ret.preferences.food_flags # <<>>

\* C4: with dietary restrictions, filter_by_preferences returns only recipes
\* marked as compliant with them: every returned recipe is tagged with every
\* restriction of the user.
C4_OnlyCompliantRecipesReturned ==
    ret.fn = "filter_by_preferences" =>
        \A i \in 1..Len(ret.value) :
            \A j \in 1..Len(ret.preferences.dietary_restrictions) :
                InList(ret.preferences.dietary_restrictions[j],
                       Get(ret.value[i], "tags", <<>>))

\* C9: check_recipe_allergens returns True exactly when some ingredient of the
\* recipe lists one of the user's allergies in its common_allergens.
C9_AllergenCheckExact ==
    ret.fn = "check_recipe_allergens" =>
        (ret.value = TRUE) <=>
            \E i \in 1..Len(IngredientsOf(ret.recipe)) :
                \E j \in 1..Len(ret.user_allergies) :
                    ListsAllergen(IngredientsOf(ret.recipe)[i], ret.user_allergies[j])

\* True for an allergen that only the second ingredient lists and that is the
\* second of the user's allergies, the first ingredient having no allergen data
C9_Witness ==
    /\ ret.fn = "check_recipe_allergens"
    /\ ret.value = TRUE
    /\ Len(IngredientsOf(ret.recipe)) = 2
    /\ IngredientsOf(ret.recipe)[1].common_allergens \in {Null, JsonDumps(<<>>)}
    /\ Len(ret.user_allergies) = 2
    /\ ~ ListsAllergen(IngredientsOf(ret.recipe)[2], ret.user_allergies[1])

\* C10: check_food_flags(recipe, preferences) returns True when the recipe
\* carries a food flag listed in the preferences' food_flags, False otherwise.
C10_FoodFlagCheckIsBoolean ==
    (ret.fn = "check_food_flags" /\ Len(ret.positional) = 2) =>
        /\ ret.raised = ""
        /\ ret.value =
              AnyIn(ret.positional[2].food_flags, CheckFoodFlags(ret.positional[1]))

\* C11: check_food_flags reports high_sodium iff sodium > 500, high_sugar iff
\* sugar > 25, high_fat iff fat > 20, high_calories iff calories > 500, high_carbs
\* iff carbs > 50 and low_protein iff protein < 10, a missing field counting as 0,
\* and reports nothing else.
C11_FoodFlagsByThreshold ==
    (ret.fn = "check_food_flags" /\ Len(ret.positional) = 1) =>
        LET Field(key) == IF key \in DOMAIN ret.positional[1]
                          THEN ret.positional[1][key] ELSE 0
        IN /\ ret.raised = ""
           /\ InList("high_sodium", ret.value) <=> (Field("sodium") > 500)
           /\ InList("high_sugar", ret.value) <=> (Field("sugar") > 25)
           /\ InList("high_fat", ret.value) <=> (Field("fat") > 20)
           /\ InList("high_calories", ret.value) <=> (Field("calories") > 500)
           /\ InList("high_carbs", ret.value) <=> (Field("carbs") > 50)
           /\ InList("low_protein", ret.value) <=> (Field("protein") < 10)
           /\ Range(ret.value) \subseteq
                  {"high_sodium", "high_sugar", "high_fat", "high_calories",
                   "high_carbs", "low_protein"}

\* a recipe without a protein field, with its sodium equal to the threshold and
\* its fat above it: flagged low_protein and high_fat, not high_sodium
C11_Witness ==
    /\ ret.fn = "check_food_flags"
    /\ Len(ret.positional) = 1
    /\ "protein" \notin DOMAIN ret.positional[1]
    /\ "sodium" \in DOMAIN ret.positional[1]
    /\ ret.positional[1].sodium = 500
    /\ "fat" \in DOMAIN ret.positional[1]
    /\ ret.positional[1].fat = 21
    /\ InList("low_protein", ret.value)
    /\ InList("high_fat", ret.value)
    /\ ~ InList("high_sodium", ret.value)

----------------------------------------------------------------------------
(* Claims about get_recommendations and GET /personalized (Spec) *)

\* the last get_recommendations call returned a list
Returned == result.fn = "get_recommendations" /\ result.raised = ""

\* the cuisine of the recipe is written in the favorite_cuisines column of the
\* user the recommendations were computed for
IsFavourite(recipe) ==
    /\ "cuisine" \in DOMAIN recipe
    /\ result.user_id \in DOMAIN users
    /\ \E k \in 1..Len(users[result.user_id].favorite_cuisines) :
          users[result.user_id].favorite_cuisines[k] = recipe.cuisine

\* C1: no recipe returned by filter_by_preferences, and therefore none returned
\* by get_recommendations, has an ingredient whose common_allergens contains one
\* of the user's allergies.
C1_NoAllergenRecipeRecommended ==
    Returned =>
        \A i \in 1..Len(result.value) :
            \A k \in 1..Len(recipe_ingredients[result.value[i].id]) :
                \A j \in 1..Len(GetUserPreferences(result.user_id).allergies) :
                    ~ ListsAllergen(recipe_ingredients[result.value[i].id][k],
                                    GetUserPreferences(result.user_id).allergies[j])

\* C2: get_recommendations returns at most n_recommendations recipes, for every
\* n_recommendations >= 0.
C2_AtMostNRecommendations ==
    (Returned /\ result.n_recommendations >= 0) =>
        Len(result.value) <= result.n_recommendations

\* two recipes pass the filter of user 2 and one is returned for n = 1
C2_Witness ==
    /\ Returned
    /\ result.user_id = 2
    /\ result.n_recommendations = 1
    /\ Len(result.value) = 1
    /\ Cardinality(DOMAIN recipes) = 3

\* C5: the list returned by get_recommendations is in non-increasing order of
\* match_score.
C5_SortedByMatchScore ==
    Returned =>
        \A i, j \in 1..Len(result.value) :
            i < j => result.value[i].match_score >= result.value[j].match_score

\* a result of two recipes with different scores
C5_Witness ==
    /\ Returned
    /\ Len(result.value) = 2
    /\ result.value[1].match_score > result.value[2].match_score

\* C6: every returned recipe has match_score 0.7 when its cuisine is one of the
\* user's favourite cuisines and 0.5 otherwise, whatever was served before, and
\* every favourite-cuisine recipe of the result precedes every other recipe.
C6_FavouriteCuisineScore ==
    Returned =>
        /\ \A i \in 1..Len(result.value) :
              result.value[i].match_score =
                  IF IsFavourite(result.value[i]) THEN 7 ELSE 5
        /\ \A i, j \in 1..Len(result.value) :
              (i < j /\ IsFavourite(result.value[j])) => IsFavourite(result.value[i])

\* a favourite-cuisine recipe at 0.7 ahead of another recipe at 0.5, returned to
\* user 1 after a request of user 2 had scored recipe 1
C6_Witness ==
    /\ Returned
    /\ result.user_id = 1
    /\ Len(result.value) = 2
    /\ IsFavourite(result.value[1]) /\ result.value[1].match_score = 7
    /\ ~ IsFavourite(result.value[2]) /\ result.value[2].match_score = 5
    /\ 1 \in DOMAIN recipes /\ "match_score" \in DOMAIN recipes[1]

\* C7: when the catalogue holds at least one recipe, the recommendations request
\* of an authenticated user answers 200 with a non-empty list whose entries each
\* carry an integer id (stated for the requests served with the weights loaded).
C7_RecommendationsNonEmpty ==
    ("route" \in DOMAIN http /\ DOMAIN recipes # {} /\ model = "loaded") =>
        /\ http.status_code = 200
        /\ Len(http.body) > 0
        /\ \A i \in 1..Len(http.body) : http.body[i].id \in Int

\* C8: when the database holds no recipe, get_recommendations returns an empty
\* list and raises nothing, for every user and every n_recommendations.
C8_EmptyCatalogueEmptyList ==
    (result.fn = "get_recommendations" /\ DOMAIN recipes = {}) =>
        /\ result.raised = ""
        /\ result.value = <<>>

\* C28: load_model keeps only a successfully loaded model: when reading or
\* applying the weight file fails, self.model is still None afterwards, and a
\* call that returns recommendations runs with loaded weights.
C28_OnlyLoadedModelKept ==
    result.fn = "get_recommendations" =>
        IF result.raised = "load_model"
        THEN model = "None"
        ELSE model = "loaded"

----------------------------------------------------------------------------
(* Claims about the methods that read the database (SpecReads) *)

\* the tables of the database
database == <<recipes, recipe_ingredients, users, interactions, ingredients_table>>

PreferenceKeys == {"dietary_restrictions", "favorite_cuisines", "allergies", "food_flags"}

\* C12: get_user_preferences returns the four lists equal to the values stored
\* for the user (an unset column reading as an empty list), four empty lists
\* when no user has the id, and never modifies the database.
C12_UserPreferencesAsStored ==
    /\ [](ret.fn = "get_user_preferences" =>
            /\ DOMAIN ret.value = PreferenceKeys
            /\ \A key \in PreferenceKeys :
                  IF ret.user_id \notin DOMAIN users
                  THEN ret.value[key] = <<>>
                  ELSE IF users[ret.user_id][key] = Null
                  THEN ret.value[key] = <<>>
                  ELSE JsonDumps(ret.value[key]) = users[ret.user_id][key])
    /\ [][ret'.fn = "get_user_preferences" => UNCHANGED database]_vars

\* the preferences of user 1, whose four columns hold different lists
C12_Witness ==
    /\ ret.fn = "get_user_preferences"
    /\ ret.user_id = 1
    /\ ret.value.allergies = <<"nuts">>
    /\ ret.value.food_flags = <<"high_fat">>
    /\ ret.value.favorite_cuisines = <<"thai", "italian">>

\* the similarity score content_based_filtering gives to a pair of recipes
SimilarityScore(target_id, other_id) ==
    CosineSimilarity(GetRecipeFeatures(recipes[target_id]),
                     GetRecipeFeatures(recipes[other_id]))

C14_CollaborativeFilteringEmpty ==
    /\ [](ret.fn = "collaborative_filtering" => ret.value = <<>>)
    /\ [][ret'.fn = "collaborative_filtering" => UNCHANGED database]_vars

\* a call for a user who has logged interactions
C14_Witness ==
    /\ ret.fn = "collaborative_filtering"
    /\ ret.value = <<>>
    /\ \E k \in 1..Len(interactions) : interactions[k].user_id = ret.user_id

----------------------------------------------------------------------------
(* Claims about training and about the handlers' errors (SpecRouter) *)

\* C15: train_model leaves the whole service state unchanged for every
\* training_data: the model and everything get_recommendations reads (the
\* recipes with the scores written on them, the users, the interactions) are
\* after a training call what they were before it, so that the recommendations
\* computed after it equal those computed before.
C15_TrainingIsNoOp ==
    [][ret'.fn = "train_model" => (model' = model /\ UNCHANGED database)]_vars

\* a training call on non-empty data, made after recommendations were served
C15_Witness ==
    /\ ret.fn = "train_model"
    /\ ret.training_data # <<>>
    /\ model = "loaded"
    /\ \E id \in DOMAIN recipes : "match_score" \in DOMAIN recipes[id]

C30_TrainForbiddenForNonAdmin ==
    ("route" \in DOMAIN http /\ http.route = "/train") =>
        IF Get(users[http.user_id], "is_admin", FALSE)
        THEN /\ http.status_code = 200
             /\ http.body = <<"Model trained successfully">>
             /\ ret.fn = "train_model"
        ELSE /\ http.status_code = 403
             /\ http.detail = "Not enough permissions"
             /\ ret = NoCall

----------------------------------------------------------------------------
(* Claims about the preference handlers (SpecUsers) *)

\* C17: PUT /users/me/preferences stores the submitted preferences, and its
\* response as well as a following GET /users/me/preferences return the four
\* lists equal to the submitted ones: every preferences response to the user
\* of the last PUT is 200 with that PUT's lists.
C17_PreferencesRoundTrip ==
    ("route" \in DOMAIN http /\ http.route = "/users/me/preferences"
       /\ args.fn = "update_user_preferences" /\ args.user_id = http.user_id) =>
        /\ http.status_code = 200
        /\ http.body = args.preferences

----------------------------------------------------------------------------
(* Claims about the ingredient loader (SpecLoader) *)

Fetchers ==
    {"get_openfoodfacts_ingredients", "get_edamam_ingredients",
     "get_usda_ingredients"}

\* C18: each of the three fetchers returns an empty list and raises nothing
\* whenever the HTTP request, the status check or the parsing of the response
\* raises an exception.
C18_FetchErrorsGiveEmptyList ==
    (ret.fn \in Fetchers /\ ret.error # "") =>
        /\ ret.raised = ""
        /\ ret.value = <<>>

\* the document of the USDA answer could not be decoded
C18_Witness ==
    /\ ret.fn = "get_usda_ingredients"
    /\ ret.error = "json"
    /\ ret.value = <<>>

\* the allergen names written in the data: the parts of the comma-separated
\* string, the entries of the list, the single name; trimmed, lower-cased
AllergenNames(data) ==
    LET written ==
            (IF "allergens" \notin DOMAIN data THEN {}
             ELSE IF data.allergens.type = "str"
             THEN Range(Split(data.allergens.value, ","))
             ELSE Range(data.allergens.value))
            \cup (IF "allergenName" \in DOMAIN data THEN {data.allergenName} ELSE {})
    IN {Lower(Strip(name)) : name \in {w \in written : Strip(w) # <<>>}}

\* C19: _extract_allergens returns exactly the set of allergen names of its
\* input, trimmed, lower-cased and without duplicates, for the comma-separated
\* string form, the list form and the single-name form, and [] when the input
\* carries no allergen field.
C19_AllergensExtracted ==
    ret.fn = "_extract_allergens" =>
        /\ ret.raised = ""
        /\ ret.value = AllergenNames(ret.data)

\* C20: save_ingredients adds only ingredients whose name is not already
\* stored: an input whose name exists is skipped, each input with a new name
\* is added once, and the session is committed exactly once per call.
C20_SaveAddsNewNamesOnce ==
    [][ret'.fn = "save_ingredients" =>
          LET Count(table, name) ==
                  Cardinality({k \in 1..Len(table) : table[k].name = name})
          IN /\ \A i \in 1..Len(ret'.batch) :
                   IF Count(ingredients_table, ret'.batch[i].name) > 0
                   THEN Count(ingredients_table', ret'.batch[i].name)
                            = Count(ingredients_table, ret'.batch[i].name)
                   ELSE Count(ingredients_table', ret'.batch[i].name) = 1
             /\ Len(ingredients_table') >= Len(ingredients_table)
             /\ SubSeq(ingredients_table', 1, Len(ingredients_table))
                    = ingredients_table
             /\ ret'.commits = 1]_vars

\* no two stored ingredients share a name
UniqueNames(table) ==
    \A i, j \in 1..Len(table) : table[i].name = table[j].name => i = j

----------------------------------------------------------------------------
(* Claims about load_all_ingredients (SpecLoadAll) *)

\* a direct call of get_openfoodfacts_ingredients made a time.sleep(1)
FetcherSleeps ==
    ret.fn = "get_openfoodfacts_ingredients" =>
        \E k \in 1..Len(ret.calls) : ret.calls[k] = TimeSleep(1)

\* in a run of load_all_ingredients every request is followed by a
\* time.sleep(1) before the next request is sent: the request is the last call
\* made so far and the sleep is the next step, or the call after it is the sleep
SleepAfterEveryFetch ==
    loading.pc # "none" =>
        \A k \in 1..Len(loading.calls) :
            loading.calls[k].fn = "requests.get" =>
                IF k = Len(loading.calls)
                THEN loading.pc = "sleep"
                ELSE loading.calls[k + 1] = TimeSleep(1)

\* a finished run that sent every request: MaxPage pages and two queries for
\* each of the MaxCategory categories
FinishedRun ==
    /\ loading.pc = "returned"
    /\ Cardinality({k \in 1..Len(loading.calls) :
                       loading.calls[k].fn = "requests.get"})
           = MaxPage + 2 * MaxCategory
    /\ Len(loading.calls) = 2 * (MaxPage + 2 * MaxCategory)

\* C21: requests to the external APIs are rate limited: every call of
\* get_openfoodfacts_ingredients pauses for one second, and load_all_ingredients
\* pauses one second after every fetch before the next request is sent.
C21_RequestsRateLimited ==
    /\ FetcherSleeps
    /\ SleepAfterEveryFetch

----------------------------------------------------------------------------
(* Claims about ModelTrainer.train (SpecTrainer) *)

\* the lowest of a non-empty list of losses
MinOf(losses) == CHOOSE m \in Range(losses) : \A x \in Range(losses) : m <= x

\* the validation loss of epoch k (counted from 1) is strictly lower than that
\* of every earlier epoch
Improves(losses, k) == \A j \in 1..(k - 1) : losses[k] < losses[j]

\* the number of epochs run since the last one that improved
Stale(losses) ==
    IF losses = <<>> THEN 0
    ELSE Len(losses)
         - (CHOOSE k \in 1..Len(losses) :
               /\ Improves(losses, k)
               /\ \A j \in (k + 1)..Len(losses) : ~ Improves(losses, j))

\* C22: train runs at most num_epochs epochs and stops early exactly when the
\* validation loss has failed to improve on the best one seen so far for
\* early_stopping_patience consecutive epochs; every epoch whose validation
\* loss is strictly lower than that of all earlier epochs resets the patience
\* counter to 0, for every save_interval.
C22_EarlyStoppingOnPatience ==
    trainer.pc \in {"training", "returned"} =>
        /\ Len(trainer.val_losses) <= trainer.num_epochs
        /\ trainer.patience_counter = Stale(trainer.val_losses)
        /\ (trainer.early_stop # 0) <=>
               Stale(trainer.val_losses) >= trainer.early_stopping_patience
        /\ (trainer.pc = "returned") <=>
               \/ trainer.early_stop # 0
               \/ Len(trainer.val_losses) = trainer.num_epochs

\* C27: after train returns having run at least one epoch, best_model.pt
\* holds the checkpoint of the epoch with the lowest validation loss, and
\* best_val_loss equals the minimum of val_losses.
C27_BestModelHoldsLowestLoss ==
    (trainer.pc \in {"training", "returned"} /\ trainer.val_losses # <<>>) =>
        /\ trainer.best_val_loss = MinOf(trainer.val_losses)
        /\ "best_model.pt" \in DOMAIN trainer.files
        /\ trainer.files["best_model.pt"].val_loss = MinOf(trainer.val_losses)
        /\ trainer.val_losses[trainer.files["best_model.pt"].epoch + 1]
               = MinOf(trainer.val_losses)

\* the part of C27 about best_val_loss alone
BestValLossIsMinimum ==
    (trainer.pc \in {"training", "returned"} /\ trainer.val_losses # <<>>) =>
        trainer.best_val_loss = MinOf(trainer.val_losses)

\* C22 and the best_val_loss part of C27 as long as no epoch was reached at
\* which (epoch + 1) % save_interval = 0
WithoutIntervalSave ==
    Len(trainer.val_losses) < trainer.save_interval =>
        /\ C22_EarlyStoppingOnPatience
        /\ BestValLossIsMinimum

----------------------------------------------------------------------------
(* Claims about train_pipeline.main (SpecPipeline) *)

\* the messages the current run has logged
RunLog == SelectSeq(pipeline.log, LAMBDA entry : entry.run = pipeline.run)

\* the current run has logged the completion message
CompletionLogged ==
    \E k \in 1..Len(RunLog) : RunLog[k].message = "Training pipeline completed"

\* C23: main runs data loading, data preparation and model training in that
\* order; a step is started only after the previous one exited successfully,
\* after the first failing step no later step is started, and the completion
\* message is logged only when all three steps succeeded.
C23_PipelineIsLinear ==
    pipeline.pc # "idle" =>
        /\ Len(pipeline.processes) <= Len(PipelineScripts)
        /\ \A k \in 1..Len(pipeline.processes) :
              /\ pipeline.processes[k].script_path = PipelineScripts[k].script_path
              /\ \A j \in 1..(k - 1) :
                    /\ pipeline.processes[j].raised = ""
                    /\ pipeline.processes[j].returncode = 0
        /\ CompletionLogged =>
              /\ Len(pipeline.processes) = Len(PipelineScripts)
              /\ \A k \in 1..Len(pipeline.processes) :
                    /\ pipeline.processes[k].raised = ""
                    /\ pipeline.processes[k].returncode = 0
        /\ (pipeline.pc = "returned" /\ ~ CompletionLogged) =>
              /\ pipeline.processes # <<>>
              /\ pipeline.processes[Len(pipeline.processes)].raised
                     = "CalledProcessError"

\* a second run that ended at its failing second step, after a first run that
\* completed
C23_Witness ==
    /\ pipeline.run = 2
    /\ pipeline.pc = "returned"
    /\ Len(pipeline.processes) = 2
    /\ pipeline.processes[2].raised = "CalledProcessError"
    /\ ~ CompletionLogged
    /\ \E k \in 1..Len(pipeline.log) :
          /\ pipeline.log[k].run = 1
          /\ pipeline.log[k].message = "Training pipeline completed"

----------------------------------------------------------------------------
(* Claims about the favourites handlers (SpecFavorites) *)

\* the recipe ids GET /users/me/favorites lists for the user
FavoritesOf(user_id) == {SavedBy(user_id)[k].recipe_id : k \in 1..Len(SavedBy(user_id))}

\* after a successful DELETE the recipe is no favourite of the user
RemovedIsNoFavorite ==
    ("method" \in DOMAIN http /\ http.method = "DELETE" /\ http.status_code = 200) =>
        http.recipe_id \notin FavoritesOf(http.user_id)

\* a DELETE answered 404 was for a recipe that is no favourite and changed no row
NotFoundChangesNothing ==
    [][("method" \in DOMAIN http' /\ http'.method = "DELETE"
            /\ http'.status_code = 404)
          => /\ http'.recipe_id \notin FavoritesOf(http'.user_id)
             /\ UNCHANGED interactions]_vars

\* C24: after DELETE /users/me/favorites/{recipe_id} answers success, the
\* recipe is no longer in the list GET /users/me/favorites returns for the
\* user, after any sequence of add and remove requests; a DELETE for a recipe
\* that is not a favourite answers 404 and leaves the interactions unchanged.
C24_RemovedFavoriteIsGone ==
    /\ []RemovedIsNoFavorite
    /\ NotFoundChangesNothing

----------------------------------------------------------------------------
(* Claims about the candidates of get_recommendations (SpecCandidates) *)

\* the last call returned a list and its candidate list was observed
ReturnedFrom ==
    /\ result.fn = "get_recommendations" /\ result.raised = ""
    /\ ret.fn = "combined_recommendations"

\* the recipe passes the preference filter of the user served
PassesFilter(id) ==
    ~ SkipsRecipe(recipes[id], GetUserPreferences(result.user_id))

\* C25: get_recommendations cuts the candidate list to its first
\* n_recommendations ids before the preference filter runs: every returned
\* recipe is one of those first n candidates, and a candidate the filter removed
\* is not replaced by a later one (the result is exactly the first n candidates
\* that pass the filter).
C25_CandidatesCutBeforeFilter ==
    (ReturnedFrom /\ result.n_recommendations >= 0) =>
        LET first == Range(SliceTo(ret.value, result.n_recommendations))
        IN {result.value[i].id : i \in 1..Len(result.value)}
               = {id \in first : PassesFilter(id)}

\* a result with fewer than n recipes although n candidates pass the filter:
\* the first n candidates held one the filter removed
C25_Witness ==
    /\ ReturnedFrom
    /\ result.n_recommendations >= 1
    /\ Len(result.value) < result.n_recommendations
    /\ Cardinality({id \in Range(ret.value) : PassesFilter(id)})
           >= result.n_recommendations
    /\ \E id \in Range(SliceTo(ret.value, result.n_recommendations)) :
          ~ PassesFilter(id)

====
